---- MODULE Spec2Model ----
(***************************************************************************)
(* A model of GCPDataStorage (gc_data_storage.py): the session object,     *)
(* the path resolver _construct_gcs_path, and the save / read / delete     *)
(* handlers with the external collaborators (gcloud, pandas, the bucket    *)
(* client, the prompt) as nondeterministic inputs.                         *)
(*                                                                         *)
(* A Python str is a sequence of one-character strings, so that replace,   *)
(* strip, lower, startswith, endswith and pathlib's name / suffix are      *)
(* computed the way Python computes them.  Values that are not str (None,  *)
(* True, False, a failed subprocess) are one-element sequences holding a   *)
(* marker no character equals.                                             *)
(***************************************************************************)
EXTENDS Integers, Sequences, FiniteSets, TLC

VARIABLES
    env,      \* the process environment and the gcloud configuration store
    world,    \* how the collaborators answer: the bucket, gcloud, the codecs
    session,  \* the GCPDataStorage object, or NoSession before construction
    call,     \* the last call: its arguments, its outcome, what it issued
    disk,     \* the local files that exist
    threads,  \* the calls that run side by side, each at its own step
    holds     \* for the files such calls stage: whose bytes a file holds

vars == <<env, world, session, call, disk, threads, holds>>

---------------------------------------------------------------------------
(* Bounds of the model                                                     *)

\* number of parts a generated filename is concatenated from
MaxFileParts == 2
\* number of parts a generated bucket override is concatenated from
MaxBucketParts == 3
\* number of parts a generated directory override is concatenated from
MaxDirParts == 2
\* local files on disk beyond which no further save or read is started
MaxDisk == 2

---------------------------------------------------------------------------
(* Python values                                                           *)

None == <<"<None>">>
PyTrue == <<"<True>">>
PyFalse == <<"<False>">>
\* subprocess.run(check=True) raised CalledProcessError / FileNotFoundError
CliFail == <<"<CalledProcessError>">>
\* 'bool' object has no attribute 'replace'
AttributeError == <<"<AttributeError>">>

NotStr == {None, PyTrue, PyFalse, CliFail, AttributeError}

IsStr(x) == x \notin NotStr

\* Python truthiness of None, a bool or a str
Truthy(x) == x # None /\ x # PyFalse /\ x # <<>>

Scheme == <<"g", "s", ":", "/", "/">>
Slash == "/"
Dot == "."

Upper == <<"A","B","C","D","E","F","G","H","I","J","K","L","M",
           "N","O","P","Q","R","S","T","U","V","W","X","Y","Z">>
LowerAlpha == <<"a","b","c","d","e","f","g","h","i","j","k","l","m",
                "n","o","p","q","r","s","t","u","v","w","x","y","z">>
Whitespace == {" ", "\n", "\t"}

SetMin(S) == CHOOSE x \in S : \A y \in S : x <= y
SetMax(S) == CHOOSE x \in S : \A y \in S : x >= y

\* str.startswith
StartsWith(s, p) == Len(s) >= Len(p) /\ SubSeq(s, 1, Len(p)) = p

\* str.endswith
EndsWith(s, p) ==
    Len(s) >= Len(p) /\ SubSeq(s, Len(s) - Len(p) + 1, Len(s)) = p

\* str.replace(old, ''): every non-overlapping occurrence, scanning from the left
RECURSIVE py_replace(_, _)
py_replace(s, old) ==
    IF s = <<>> THEN <<>>
    ELSE IF StartsWith(s, old)
         THEN py_replace(SubSeq(s, Len(old) + 1, Len(s)), old)
         ELSE <<Head(s)>> \o py_replace(Tail(s), old)

\* str.strip(chars) for a set of characters
py_strip(s, chars) ==
    LET keep == {i \in 1..Len(s) : s[i] \notin chars}
    IN  IF keep = {} THEN <<>> ELSE SubSeq(s, SetMin(keep), SetMax(keep))

\* str.lower on ASCII
LowerChar(c) ==
    IF \E i \in 1..Len(Upper) : Upper[i] = c
    THEN LowerAlpha[CHOOSE i \in 1..Len(Upper) : Upper[i] = c]
    ELSE c

py_lower(s) == [i \in 1..Len(s) |-> LowerChar(s[i])]

\* str.split(sep) for a one-character separator
RECURSIVE py_split(_, _)
py_split(s, sep) ==
    LET at == {i \in 1..Len(s) : s[i] = sep}
    IN  IF at = {} THEN <<s>>
        ELSE <<SubSeq(s, 1, SetMin(at) - 1)>>
             \o py_split(SubSeq(s, SetMin(at) + 1, Len(s)), sep)

\* pathlib: Path(p).name, the last component; empty and '.' components are dropped
path_name(p) ==
    LET segs == py_split(p, Slash)
        real == {i \in 1..Len(segs) : segs[i] # <<>> /\ segs[i] # <<Dot>>}
    IN  IF real = {} THEN <<>> ELSE segs[SetMax(real)]

\* pathlib: Path(p).suffix, from the last dot of the name, unless the dot is
\* the first or the last character of the name
path_suffix(p) ==
    LET name == path_name(p)
        dots == {i \in 1..Len(name) : name[i] = Dot}
    IN  IF dots = {} THEN <<>>
        ELSE LET i == SetMax(dots)
             IN  IF 1 < i /\ i < Len(name) THEN SubSeq(name, i, Len(name))
                 ELSE <<>>

---------------------------------------------------------------------------
(* Session construction: __init__, _resolve_bucket_name, _resolve_project_id *)

BucketEnvVars == <<"WORKSPACE_BUCKET", "GCS_BUCKET", "GOOGLE_CLOUD_BUCKET",
                   "BUCKET_NAME">>
ProjectEnvVars == <<"GOOGLE_CLOUD_PROJECT", "GCP_PROJECT", "PROJECT_ID">>

EnvVarNames ==
    {BucketEnvVars[i] : i \in 1..Len(BucketEnvVars)}
    \cup {ProjectEnvVars[i] : i \in 1..Len(ProjectEnvVars)}

\* os.getenv(var): None when unset
getenv(e, var) == e.vars[var]

\* the first set, non-empty variable of the list, or None
FirstEnv(e, names) ==
    LET hit == {i \in 1..Len(names) : Truthy(getenv(e, names[i]))}
    IN  IF hit = {} THEN None ELSE getenv(e, names[SetMin(hit)])

\* 'gcloud config get-value ...': stdout.strip() when the command ran and
\* printed something, else None
CliValue(out) ==
    IF out = CliFail THEN None
    ELSE IF py_strip(out, Whitespace) # <<>> THEN py_strip(out, Whitespace)
    ELSE None

\* faulty variant: the environment is looked at before the argument, and the
\* last variable that is set wins
resolve_bucket_name_EnvFirst(bucket_name, e) ==
    LET hit == {i \in 1..Len(BucketEnvVars) : Truthy(getenv(e, BucketEnvVars[i]))}
    IN  IF hit # {}
        THEN [ok |-> TRUE,
              v |-> py_replace(getenv(e, BucketEnvVars[SetMax(hit)]), Scheme)]
        ELSE IF Truthy(bucket_name)
        THEN [ok |-> TRUE, v |-> py_replace(bucket_name, Scheme)]
        ELSE IF CliValue(e.cli_bucket) # None
        THEN [ok |-> TRUE, v |-> CliValue(e.cli_bucket)]
        ELSE [ok |-> FALSE, v |-> None]

\* _resolve_bucket_name: [ok |-> FALSE] is the ValueError
resolve_bucket_name(bucket_name, e) ==
    IF Truthy(bucket_name)
    THEN [ok |-> TRUE, v |-> py_replace(bucket_name, Scheme)]
    ELSE IF FirstEnv(e, BucketEnvVars) # None
    THEN [ok |-> TRUE, v |-> py_replace(FirstEnv(e, BucketEnvVars), Scheme)]
    ELSE IF CliValue(e.cli_bucket) # None
    THEN [ok |-> TRUE, v |-> CliValue(e.cli_bucket)]
    ELSE [ok |-> FALSE, v |-> None]

\* _resolve_project_id: None when nothing is found
resolve_project_id(project_id, e) ==
    IF Truthy(project_id) THEN project_id
    ELSE IF FirstEnv(e, ProjectEnvVars) # None THEN FirstEnv(e, ProjectEnvVars)
    ELSE CliValue(e.cli_project)

NoSession ==
    [exists |-> FALSE, bucket_name |-> None, directory |-> None,
     project_id |-> None, client |-> FALSE]

\* __init__: the session object, or NoSession when _resolve_bucket_name raised.
\* clientOk: storage.Client(project=...) did not raise
init(bucket_name, directory, project_id, e, clientOk) ==
    LET b == resolve_bucket_name(bucket_name, e)
    IN  IF ~b.ok THEN NoSession
        ELSE [exists |-> TRUE,
              bucket_name |-> b.v,
              directory |-> py_strip(directory, {Slash}),
              project_id |-> resolve_project_id(project_id, e),
              client |-> clientOk]

---------------------------------------------------------------------------
(* The path resolver                                                       *)

\* faulty variant: the components are cleaned before the prefix test, so a full
\* address loses its trailing slashes
construct_gcs_path_StripFirst(self, filename, bucket_name, directory) ==
    LET bucket == IF Truthy(bucket_name) THEN bucket_name ELSE self.bucket_name
        dir_path == IF directory # None THEN directory ELSE self.directory
        f == py_strip(filename, {Slash})
    IN  IF StartsWith(f, Scheme) THEN f
        ELSE IF ~IsStr(bucket) THEN AttributeError
        ELSE IF py_strip(dir_path, {Slash}) # <<>>
        THEN Scheme \o py_replace(bucket, Scheme) \o <<Slash>>
             \o py_strip(dir_path, {Slash}) \o <<Slash>> \o f
        ELSE Scheme \o py_replace(bucket, Scheme) \o <<Slash>> \o f

\* faulty variant: the filename is not stripped
construct_gcs_path_RawName(self, filename, bucket_name, directory) ==
    LET bucket == IF Truthy(bucket_name) THEN bucket_name ELSE self.bucket_name
        dir_path == IF directory # None THEN directory ELSE self.directory
    IN  IF StartsWith(filename, Scheme) THEN filename
        ELSE IF ~IsStr(bucket) THEN AttributeError
        ELSE IF py_strip(dir_path, {Slash}) # <<>>
        THEN Scheme \o py_replace(bucket, Scheme) \o <<Slash>>
             \o py_strip(dir_path, {Slash}) \o <<Slash>> \o filename
        ELSE Scheme \o py_replace(bucket, Scheme) \o <<Slash>> \o filename

\* _construct_gcs_path
construct_gcs_path(self, filename, bucket_name, directory) ==
    LET bucket == IF Truthy(bucket_name) THEN bucket_name ELSE self.bucket_name
        dir_path == IF directory # None THEN directory ELSE self.directory
    IN  IF StartsWith(filename, Scheme) THEN filename
        ELSE IF ~IsStr(bucket) THEN AttributeError
        ELSE LET b == py_replace(bucket, Scheme)
                 d == py_strip(dir_path, {Slash})
                 f == py_strip(filename, {Slash})
             IN  IF d # <<>>
                 THEN Scheme \o b \o <<Slash>> \o d \o <<Slash>> \o f
                 ELSE Scheme \o b \o <<Slash>> \o f

---------------------------------------------------------------------------
(* Extensions, events and outcomes                                         *)

TabularExts ==
    {<<".","c","s","v">>, <<".","t","s","v">>, <<".","x","l","s","x">>,
     <<".","p","a","r","q","u","e","t">>, <<".","j","s","o","n">>}

\* plot_extensions of _save_plot
PlotExts ==
    {<<".","p","n","g">>, <<".","j","p","g">>, <<".","j","p","e","g">>,
     <<".","p","d","f">>, <<".","s","v","g">>, <<".","e","p","s">>,
     <<".","t","i","f","f">>}

\* the image extensions of read_data_from_bucket
ReadImageExts ==
    {<<".","p","n","g">>, <<".","j","p","g">>, <<".","j","p","e","g">>,
     <<".","p","d","f">>, <<".","s","v","g">>}

XlsxExt == <<".","x","l","s","x">>

\* Path(filename).suffix.lower()
file_ext_of(filename) == py_lower(path_suffix(filename))

\* One thing a call did, in the order it did it.  a, b: the addresses or files.
\*   validate  a = the bucket whose access was validated
\*   write     a = the address a codec wrote to (pandas, no subprocess)
\*   load      a = the address or file a codec / Image / open() read
\*   mktemp    a = the temporary file created
\*   render    a = the file a plot or a workbook was rendered into,
\*             b = PyTrue / PyFalse: the index argument the sheets were given
\*   cp        a = source, b = destination of 'gcloud storage cp'
\*   unlink    a = the local file removed
\*   display   a = the file displayed
\*   prompt    a = the address asked about, b = the response
\*   rm        a = the address of 'gcloud storage rm'
\*   ls        a = the address of 'gcloud storage ls'
Ev(e, a, b) == [ev |-> e, a |-> a, b |-> b]

\* What a handler gives back: result is "True" | "False" | "None" | "df" |
\* "img" | "content" | "path" | "list" | "empty" | "info" | "raise" (an
\* exception leaves the handler); value is the path of a "path" result;
\* err is what was logged: "" | "access" | "unsupported" | "exception" |
\* "transfer" | "cancelled"
Out(result, value, err, trace, d) ==
    [result |-> result, value |-> value, err |-> err, trace |-> trace, disk |-> d]

\* tempfile.NamedTemporaryFile(suffix=..., delete=False): a name no file has
NamedTemporaryFile(d, suffix) ==
    LET used == {i \in 1..(Cardinality(d) + 1) :
                   \E f \in d : Len(f) >= 2 /\ f[1] = "<tmp>" /\ f[2] = ToString(i)}
        i == SetMin((1..(Cardinality(d) + 1)) \ used)
    IN  <<"<tmp>", ToString(i)>> \o suffix

\* _validate_bucket_access.  With a client, Bucket.exists() answers False for
\* a missing bucket and raises Forbidden on a denied one; its answer is not
\* looked at.  Without a client the exit status of 'gcloud storage ls' decides.
validate_bucket_access(self, bucket_name, w) ==
    IF self.client THEN w.bucketState # "forbidden"
    ELSE w.bucketState = "ok"

\* gcs_path.split('/')[2]
bucket_of(gcs_path) == py_split(gcs_path, Slash)[3]

---------------------------------------------------------------------------
(* save_data_to_bucket and its helpers                                     *)

\* _save_dataframe: the codec writes straight to the address
save_dataframe(gcs_path, file_ext, index, w, d) ==
    IF file_ext \in TabularExts
    THEN IF w.fault = "codec"
         THEN Out("raise", <<>>, "exception", <<>>, d)
         ELSE Out("True", <<>>, "",
                  <<Ev("write", gcs_path, IF index THEN PyTrue ELSE PyFalse)>>, d)
    ELSE Out("False", <<>>, "unsupported", <<>>, d)

\* the tail shared by _save_plot, _save_file and _save_excel_workbook:
\* subprocess.run(['gcloud','storage','cp', tmp, gcs_path]); os.unlink(tmp);
\* then the exit status decides
upload_tmp(tmp, gcs_path, before, w, d) ==
    IF w.fault = "launch"
    THEN Out("raise", <<>>, "exception", before, d \cup {tmp})
    ELSE LET trace == before \o <<Ev("cp", tmp, gcs_path), Ev("unlink", tmp, <<>>)>>
         IN  IF w.rc = 0 THEN Out("True", <<>>, "", trace, d \ {tmp})
             ELSE Out("False", <<>>, "transfer", trace, d \ {tmp})

\* faulty variant: an unsupported extension falls back to a plain upload
save_plot_Fallback(gcs_path, file_ext, w, d) ==
    LET tmp == NamedTemporaryFile(d, file_ext)
        made == <<Ev("mktemp", tmp, <<>>)>>
    IN  IF w.fault = "codec"
        THEN Out("raise", <<>>, "exception", made, d \cup {tmp})
        ELSE upload_tmp(tmp, gcs_path, made \o <<Ev("render", tmp, <<>>)>>, w, d)

\* _save_plot
save_plot(gcs_path, file_ext, w, d) ==
    IF file_ext \notin PlotExts
    THEN Out("False", <<>>, "unsupported", <<>>, d)
    ELSE LET tmp == NamedTemporaryFile(d, file_ext)
             made == <<Ev("mktemp", tmp, <<>>)>>
         IN  IF w.fault = "codec"
             THEN Out("raise", <<>>, "exception", made, d \cup {tmp})
             ELSE upload_tmp(tmp, gcs_path,
                             made \o <<Ev("render", tmp, <<>>)>>, w, d)

\* faulty variant: the file on disk is copied the wrong way round
save_file_Swapped(kind, gcs_path, filename, w, d) ==
    IF kind \in {"str", "bytes"}
    THEN LET tmp == NamedTemporaryFile(d, <<>>)
         IN  upload_tmp(tmp, gcs_path, <<Ev("mktemp", tmp, <<>>)>>, w, d)
    ELSE IF w.fault = "launch"
         THEN Out("raise", <<>>, "exception", <<>>, d)
         ELSE LET trace == <<Ev("cp", gcs_path, filename)>>
              IN  IF w.rc = 0 THEN Out("True", <<>>, "", trace, d)
                  ELSE Out("False", <<>>, "transfer", trace, d)

\* _save_file: a str or bytes payload is staged in a temporary file whatever
\* the filename's extension; anything else is taken to be the local file
\* named filename
save_file(kind, gcs_path, filename, w, d) ==
    IF kind \in {"str", "bytes"}
    THEN LET tmp == NamedTemporaryFile(d, <<>>)
         IN  upload_tmp(tmp, gcs_path, <<Ev("mktemp", tmp, <<>>)>>, w, d)
    ELSE IF w.fault = "launch"
         THEN Out("raise", <<>>, "exception", <<>>, d)
         ELSE LET trace == <<Ev("cp", filename, gcs_path)>>
              IN  IF w.rc = 0 THEN Out("True", <<>>, "", trace, d)
                  ELSE Out("False", <<>>, "transfer", trace, d)

\* _save_excel_workbook(sheets_dict, filename, bucket_name, directory, index).
\* Its own try catches what ExcelWriter, to_excel and subprocess.run raise.
save_excel_workbook(self, filename, bucket_name, directory, index, w, d) ==
    LET name == IF EndsWith(filename, XlsxExt) THEN filename
                ELSE filename \o XlsxExt
        gcs_path == construct_gcs_path(self, name, bucket_name, directory)
        tmp == NamedTemporaryFile(d, XlsxExt)
        made == <<Ev("mktemp", tmp, <<>>)>>
    IN  IF gcs_path = AttributeError
        THEN Out("raise", <<>>, "exception", <<>>, d)
        ELSE IF w.fault = "codec"
        THEN Out("False", <<>>, "exception", made, d \cup {tmp})
        ELSE LET up == upload_tmp(tmp, gcs_path,
                           made \o <<Ev("render", tmp,
                                        IF index THEN PyTrue ELSE PyFalse)>>, w, d)
             IN  IF up.result = "raise" THEN [up EXCEPT !.result = "False"]
                 ELSE up

\* the dispatch of save_data_to_bucket on the payload.  kind is what the
\* isinstance / hasattr tests find: "table" (DataFrame), "dict", "plot" (has
\* savefig), "str", "bytes", "file" (anything else).  A dict is handed to
\* _save_excel_workbook(data, gcs_path, index): index lands in the bucket_name
\* parameter, and the index parameter keeps its default True.
save_dispatch(self, kind, filename, gcs_path, index, w, d) ==
    LET file_ext == file_ext_of(filename)
    IN  IF kind = "table" THEN save_dataframe(gcs_path, file_ext, index, w, d)
        ELSE IF kind = "dict"
        THEN save_excel_workbook(self, gcs_path,
                                 IF index THEN PyTrue ELSE PyFalse, None, TRUE, w, d)
        ELSE IF kind = "plot" THEN save_plot(gcs_path, file_ext, w, d)
        ELSE save_file(kind, gcs_path, filename, w, d)

\* save_data_to_bucket: True, or False after a failed validation, an
\* unsupported format, a failed copy or any exception
save_data_to_bucket(self, kind, filename, bucket_name, directory, index, w, d) ==
    LET gcs_path == construct_gcs_path(self, filename, bucket_name, directory)
        checked == <<Ev("validate", bucket_of(gcs_path), <<>>)>>
    IN  IF ~validate_bucket_access(self, bucket_of(gcs_path), w)
        THEN Out("False", <<>>, "access", checked, d)
        ELSE LET r == save_dispatch(self, kind, filename, gcs_path, index, w, d)
             IN  [r EXCEPT !.result = IF r.result = "raise" THEN "False" ELSE @,
                           !.trace = checked \o @]

---------------------------------------------------------------------------
(* read_data_from_bucket and its helpers                                   *)

\* subprocess.run(['gcloud','storage','cp', gcs_path, local_filename]): the
\* file exists afterwards when the command exited zero
download(gcs_path, local_filename, w, d) ==
    IF w.rc = 0 THEN d \cup {local_filename} ELSE d

\* _read_dataframe: the codec reads straight from the address; a local copy
\* is a second, separate transfer whose exit status only decides a log line
read_dataframe(gcs_path, file_ext, save_copy_locally, local_only, w, d) ==
    LET local_filename == path_name(gcs_path)
        copy == <<Ev("cp", gcs_path, local_filename)>>
    IN  IF local_only
        THEN IF w.fault = "launch"
             THEN Out("raise", <<>>, "exception", <<>>, d)
             ELSE Out("None", <<>>, "", copy,
                      download(gcs_path, local_filename, w, d))
        ELSE IF file_ext \notin TabularExts
        THEN Out("None", <<>>, "", <<>>, d)
        ELSE IF w.fault = "codec"
        THEN Out("raise", <<>>, "exception", <<>>, d)
        ELSE LET loaded == <<Ev("load", gcs_path, <<>>)>>
             IN  IF ~save_copy_locally THEN Out("df", <<>>, "", loaded, d)
                 ELSE IF w.fault = "launch"
                 THEN Out("raise", <<>>, "exception", loaded, d)
                 ELSE Out("df", <<>>, "", loaded \o copy,
                          download(gcs_path, local_filename, w, d))

\* _read_image: it has no local_only parameter
read_image(gcs_path, filename, save_copy_locally, w, d) ==
    LET local_filename == path_name(filename)
        copy == <<Ev("cp", gcs_path, local_filename)>>
        got == download(gcs_path, local_filename, w, d)
    IN  IF w.fault = "launch" THEN Out("raise", <<>>, "exception", <<>>, d)
        ELSE IF w.rc # 0 THEN Out("None", <<>>, "", copy, d)
        ELSE IF w.fault = "load"
        THEN Out("raise", <<>>, "exception", copy, got)
        ELSE IF save_copy_locally
        THEN Out("img", <<>>, "", copy \o <<Ev("load", local_filename, <<>>)>>, got)
        ELSE Out("img", <<>>, "",
                 copy \o <<Ev("load", local_filename, <<>>),
                           Ev("display", local_filename, <<>>),
                           Ev("unlink", local_filename, <<>>)>>,
                 got \ {local_filename})

\* _read_generic_file
read_generic_file(gcs_path, filename, save_copy_locally, local_only, w, d) ==
    LET local_filename == path_name(filename)
        copy == <<Ev("cp", gcs_path, local_filename)>>
        got == download(gcs_path, local_filename, w, d)
    IN  IF w.fault = "launch" THEN Out("raise", <<>>, "exception", <<>>, d)
        ELSE IF w.rc # 0 THEN Out("None", <<>>, "", copy, d)
        ELSE IF save_copy_locally \/ local_only
        THEN Out("path", local_filename, "", copy, got)
        ELSE IF w.fault = "load"
        THEN Out("raise", <<>>, "exception", copy, got)
        ELSE Out("content", <<>>, "",
                 copy \o <<Ev("load", local_filename, <<>>),
                           Ev("unlink", local_filename, <<>>)>>,
                 got \ {local_filename})

\* the dispatch of read_data_from_bucket on the extension
read_dispatch(gcs_path, filename, save_copy_locally, local_only, w, d) ==
    LET file_ext == file_ext_of(filename)
    IN  IF file_ext \in TabularExts
        THEN read_dataframe(gcs_path, file_ext, save_copy_locally, local_only, w, d)
        ELSE IF file_ext \in ReadImageExts
        THEN read_image(gcs_path, filename, save_copy_locally, w, d)
        ELSE read_generic_file(gcs_path, filename, save_copy_locally, local_only, w, d)

\* read_data_from_bucket: the data, or None after a failed validation or any
\* exception
read_data_from_bucket(self, filename, bucket_name, directory, save_copy_locally, local_only, w, d) ==
    LET gcs_path == construct_gcs_path(self, filename, bucket_name, directory)
        checked == <<Ev("validate", bucket_of(gcs_path), <<>>)>>
    IN  IF ~validate_bucket_access(self, bucket_of(gcs_path), w)
        THEN Out("None", <<>>, "access", checked, d)
        ELSE LET r == read_dispatch(gcs_path, filename, save_copy_locally,
                                    local_only, w, d)
             IN  [r EXCEPT !.result = IF r.result = "raise" THEN "None" ELSE @,
                           !.trace = checked \o @]

---------------------------------------------------------------------------
(* delete_file, copy_between_buckets, list_files, get_file_info            *)

\* faulty variant: everything but a refusal is taken for consent
confirmed_NotRefused(response) ==
    py_lower(response) \notin {<<"n","o">>, <<"n">>}

\* response.lower() in ['yes', 'y']
confirmed(response) ==
    py_lower(response) \in {<<"y","e","s">>, <<"y">>}

\* one 'gcloud storage <verb>' whose exit status is the handler's answer
run_gcloud(events, good, bad, w, d) ==
    IF w.fault = "launch" THEN Out(bad, <<>>, "exception", <<>>, d)
    ELSE IF w.rc = 0 THEN Out(good, <<>>, "", events, d)
    ELSE Out(bad, <<>>, "transfer", events, d)

\* delete_file: with confirm, input() is asked first
delete_file(self, filename, bucket_name, directory, confirm, response, w, d) ==
    LET gcs_path == construct_gcs_path(self, filename, bucket_name, directory)
        asked == IF confirm THEN <<Ev("prompt", gcs_path, response)>> ELSE <<>>
    IN  IF confirm /\ ~confirmed(response)
        THEN Out("False", <<>>, "cancelled", asked, d)
        ELSE LET r == run_gcloud(<<Ev("rm", gcs_path, <<>>)>>, "True", "False", w, d)
             IN  [r EXCEPT !.trace = asked \o @]

\* copy_between_buckets
copy_between_buckets(self, source_path, destination_path, w, d) ==
    LET src == IF StartsWith(source_path, Scheme) THEN source_path
               ELSE construct_gcs_path(self, source_path, None, None)
        dst == IF StartsWith(destination_path, Scheme) THEN destination_path
               ELSE construct_gcs_path(self, destination_path, None, None)
    IN  run_gcloud(<<Ev("cp", src, dst)>>, "True", "False", w, d)

Star == <<"*">>

\* list_files: the listing, or [] ("empty") when the command failed
list_files(self, pattern, bucket_name, directory, recursive, w, d) ==
    LET bucket == IF Truthy(bucket_name) THEN bucket_name ELSE self.bucket_name
        dir_path == IF directory # None THEN directory ELSE self.directory
        search_path ==
            IF recursive /\ pattern = Star
            THEN Scheme \o bucket \o <<Slash, "*", "*">>
            ELSE construct_gcs_path(self, pattern, bucket, dir_path)
    IN  run_gcloud(<<Ev("ls", search_path, <<>>)>>, "list", "empty", w, d)

\* get_file_info: the parsed listing, or None
get_file_info(self, filename, partial_string, bucket_name, directory, w, d) ==
    LET gcs_path ==
            IF partial_string
            THEN construct_gcs_path(self, Star \o filename \o Star, bucket_name,
                                    <<"*", "*">>)
            ELSE construct_gcs_path(self, filename, bucket_name, directory)
    IN  run_gcloud(<<Ev("ls", gcs_path, <<>>)>>, "info", "None", w, d)

---------------------------------------------------------------------------
(* The inputs the checked runs draw from                                   *)

\* every concatenation of at most n of the parts
RECURSIVE Concats(_, _)
Concats(parts, n) ==
    IF n = 0 THEN {<<>>}
    ELSE LET shorter == Concats(parts, n - 1)
         IN  shorter \cup {p \o t : p \in parts, t \in shorter}

F_csv == <<"d", ".", "c", "s", "v">>
F_xlsx == <<"w", ".", "x", "l", "s", "x">>
F_PNG == <<"p", ".", "P", "N", "G">>
F_bin == <<"n", ".", "b", "i", "n">>
F_full == Scheme \o <<"o", "/">> \o F_csv

\* filenames (not empty), bucket and directory overrides of the resolver's runs
PathFiles == Concats({Scheme, <<Slash>>, <<"f">>}, MaxFileParts) \ {<<>>}
PathBuckets ==
    {None, <<"o", Slash>>, <<Slash, "o">>,
     <<"g">> \o Scheme \o <<"s", ":", "/", "/", "o">>}
    \cup Concats({Scheme, <<"o">>}, MaxBucketParts)
PathDirs == {None} \cup Concats({<<Slash>>, <<"x">>}, MaxDirParts)

\* filenames and overrides of the handlers' runs
Files == {F_csv, F_xlsx, F_PNG, F_bin, F_full}
Overrides ==
    {[bucket |-> None, directory |-> None],
     [bucket |-> <<"o">>, directory |-> <<Slash, "x", Slash>>]}
Kinds == {"table", "dict", "plot", "str", "bytes", "file"}
Responses ==
    {<<>>, <<"y">>, <<"Y">>, <<"y", "e", "s">>, <<"Y", "e", "S">>,
     <<"n", "o">>, <<"y", "e">>, <<"y", "e", "s", " ">>}

\* the collaborators' behaviour in one run: the state of the bucket that is
\* validated, the exit status of the gcloud commands, and the step that
\* raises: "codec" (a pandas / savefig / ExcelWriter call), "launch"
\* (subprocess.run finds no gcloud), "load" (Image, display or open)
Worlds ==
    {[bucketState |-> "ok", rc |-> 0, fault |-> "none"],
     [bucketState |-> "ok", rc |-> 1, fault |-> "none"],
     [bucketState |-> "ok", rc |-> 0, fault |-> "codec"],
     [bucketState |-> "ok", rc |-> 0, fault |-> "launch"],
     [bucketState |-> "ok", rc |-> 0, fault |-> "load"],
     [bucketState |-> "missing", rc |-> 1, fault |-> "none"],
     [bucketState |-> "forbidden", rc |-> 1, fault |-> "none"]}

E_ws == Scheme \o <<"e", "1">>

EnvNone ==
    [vars |-> [v \in EnvVarNames |-> None], cli_bucket |-> CliFail,
     cli_project |-> CliFail]

EnvWorkspace ==
    [EnvNone EXCEPT !.vars["WORKSPACE_BUCKET"] = E_ws,
                    !.vars["GOOGLE_CLOUD_PROJECT"] = <<"p">>]

EnvCli == [EnvNone EXCEPT !.cli_bucket = Scheme \o <<"c", "\n">>]

\* the environments of the constructor's runs: each bucket variable unset,
\* empty or holding a value of its own
BucketVarValues(i) ==
    {None, <<>>, <<"e", ToString(i)>>}
    \cup (IF i = 1 THEN {Scheme, E_ws} ELSE {})

CtorEnvs ==
    {[vars |-> [v \in EnvVarNames |->
                  IF v = BucketEnvVars[1] THEN v1
                  ELSE IF v = BucketEnvVars[2] THEN v2
                  ELSE IF v = BucketEnvVars[3] THEN v3
                  ELSE IF v = BucketEnvVars[4] THEN v4
                  ELSE IF v = ProjectEnvVars[2] THEN pv
                  ELSE None],
      cli_bucket |-> cb, cli_project |-> CliFail] :
        v1 \in BucketVarValues(1), v2 \in BucketVarValues(2),
        v3 \in BucketVarValues(3), v4 \in BucketVarValues(4),
        pv \in {None, <<"p">>},
        cb \in {CliFail, <<>>, <<"\n">>, <<"c", "\n">>}}

CtorBuckets == {None, <<>>, <<"b">>, Scheme \o <<"b">>, Scheme}
CtorDirs == {<<>>, <<Slash, "d", Slash>>}
CtorProjects == {None, <<"q">>}

MainEnvs == {EnvNone, EnvWorkspace}
MainBuckets == {None, Scheme \o <<"b">>}
MainDirs == {<<Slash, "d", Slash>>}
MainProjects == {None}

---------------------------------------------------------------------------
(* The state machine                                                       *)

\* no file is held
NoFiles == [n \in {} |-> None]

\* the thread identifiers of the calls that run side by side
Tids == {1, 2}

\* a thread that runs no call
ThreadIdle ==
    [pc |-> "idle", op |-> "-", kind |-> "-", filename |-> None,
     gcs_path |-> None, local |-> None, own |-> None, got |-> None,
     result |-> "-", err |-> ""]

NoThreads == [t \in Tids |-> ThreadIdle]

\* faulty variant: an override is kept as the session's new default
self_after_Adopt(self, bucket_name, directory) ==
    [self EXCEPT
        !.bucket_name = IF Truthy(bucket_name) THEN py_replace(bucket_name, Scheme)
                        ELSE @,
        !.directory = IF directory # None THEN py_strip(directory, {Slash})
                      ELSE @]

\* the attributes of self once a handler has run with these overrides: the
\* effective bucket and directory are bound to the locals bucket and dir_path,
\* and outside __init__ no attribute of self is assigned
self_after(self, bucket_name, directory) == self

CallNone ==
    [op |-> "none", filename |-> None, bucket |-> None, directory |-> None,
     project_id |-> None, kind |-> "-", index |-> TRUE,
     save_copy_locally |-> FALSE, local_only |-> FALSE, confirm |-> FALSE,
     response |-> <<>>, gcs_path |-> None, result |-> "-", value |-> <<>>,
     err |-> "", trace |-> <<>>]

\* the record of a finished handler call
Done(c, gcs_path, r) ==
    [c EXCEPT !.gcs_path = gcs_path, !.result = r.result, !.value = r.value,
              !.err = r.err, !.trace = r.trace]

Init ==
    /\ env \in MainEnvs
    /\ world \in Worlds
    /\ session = NoSession
    /\ call = CallNone
    /\ disk = {}
    /\ threads = NoThreads
    /\ holds = NoFiles

\* no call is running: Python runs one handler at a time, to its return
Idle == call.op = "none"

\* GCPDataStorage(bucket_name, directory, project_id)
Construct(buckets, dirs, projects) ==
    /\ ~session.exists
    /\ Idle
    /\ \E b \in buckets, dr \in dirs, p \in projects, clientOk \in BOOLEAN :
         /\ session' = init(b, dr, p, env, clientOk)
         /\ call' = [CallNone EXCEPT
                       !.op = "init", !.bucket = b, !.directory = dr,
                       !.project_id = p,
                       !.result = IF resolve_bucket_name(b, env).ok THEN "ok"
                                  ELSE "ValueError"]
    /\ UNCHANGED <<env, world, disk, threads, holds>>

\* save_data_to_bucket(data, filename, bucket_name, directory, index)
Save ==
    /\ session.exists
    /\ Idle
    /\ Cardinality(disk) < MaxDisk
    /\ \E f \in Files, o \in Overrides, k \in Kinds, ix \in BOOLEAN :
         \* index is read for a table and a dict only
         /\ ix \/ k \in {"table", "dict"}
         /\ LET r == save_data_to_bucket(session, k, f, o.bucket, o.directory,
                                         ix, world, disk)
            IN  /\ call' = Done([CallNone EXCEPT
                                   !.op = "save", !.filename = f,
                                   !.bucket = o.bucket,
                                   !.directory = o.directory,
                                   !.kind = k, !.index = ix],
                                construct_gcs_path(session, f, o.bucket,
                                                   o.directory), r)
                /\ disk' = r.disk
                /\ session' = self_after(session, o.bucket, o.directory)
    /\ UNCHANGED <<env, world, threads, holds>>

\* read_data_from_bucket(filename, bucket_name, directory, save_copy_locally,
\* local_only)
Read ==
    /\ session.exists
    /\ Idle
    /\ Cardinality(disk) < MaxDisk
    /\ \E f \in Files, o \in Overrides, cp \in BOOLEAN, lo \in BOOLEAN :
         LET r == read_data_from_bucket(session, f, o.bucket, o.directory,
                                        cp, lo, world, disk)
         IN  /\ call' = Done([CallNone EXCEPT
                                !.op = "read", !.filename = f,
                                !.bucket = o.bucket, !.directory = o.directory,
                                !.save_copy_locally = cp, !.local_only = lo],
                             construct_gcs_path(session, f, o.bucket,
                                                o.directory), r)
             /\ disk' = r.disk
             /\ session' = self_after(session, o.bucket, o.directory)
    /\ UNCHANGED <<env, world, threads, holds>>

\* delete_file(filename, bucket_name, directory, confirm), and the response
\* typed at its prompt
Delete ==
    /\ session.exists
    /\ Idle
    /\ \E f \in {F_csv, F_full}, o \in Overrides, cf \in BOOLEAN,
          resp \in Responses :
         \* input() is called with confirm only
         /\ cf \/ resp = <<>>
         /\ LET r == delete_file(session, f, o.bucket, o.directory, cf, resp,
                                 world, disk)
            IN  /\ call' = Done([CallNone EXCEPT
                                   !.op = "delete", !.filename = f,
                                   !.bucket = o.bucket,
                                   !.directory = o.directory,
                                   !.confirm = cf, !.response = resp],
                                construct_gcs_path(session, f, o.bucket,
                                                   o.directory), r)
                /\ disk' = r.disk
                /\ session' = self_after(session, o.bucket, o.directory)
    /\ UNCHANGED <<env, world, threads, holds>>

Copy ==
    /\ session.exists
    /\ Idle
    /\ \E src \in {F_csv, F_full}, dst \in {F_bin} :
         LET r == copy_between_buckets(session, src, dst, world, disk)
         IN  /\ call' = Done([CallNone EXCEPT !.op = "copy", !.filename = src,
                                               !.value = dst],
                             None, [r EXCEPT !.value = dst])
             /\ disk' = r.disk
             /\ session' = self_after(session, None, None)
    /\ UNCHANGED <<env, world, threads, holds>>

List ==
    /\ session.exists
    /\ Idle
    /\ \E pat \in {Star, F_csv}, o \in Overrides, rec \in BOOLEAN :
         LET r == list_files(session, pat, o.bucket, o.directory, rec,
                             world, disk)
         IN  /\ call' = Done([CallNone EXCEPT
                                !.op = "list", !.filename = pat,
                                !.bucket = o.bucket, !.directory = o.directory,
                                !.confirm = rec], None, r)
             /\ disk' = r.disk
             /\ session' = self_after(session, o.bucket, o.directory)
    /\ UNCHANGED <<env, world, threads, holds>>

GetInfo ==
    /\ session.exists
    /\ Idle
    /\ \E f \in {F_csv}, o \in Overrides, partial \in BOOLEAN :
         LET r == get_file_info(session, f, partial, o.bucket, o.directory,
                                world, disk)
         IN  /\ call' = Done([CallNone EXCEPT
                                !.op = "info", !.filename = f,
                                !.bucket = o.bucket, !.directory = o.directory,
                                !.confirm = partial], None, r)
             /\ disk' = r.disk
             /\ session' = self_after(session, o.bucket, o.directory)
    /\ UNCHANGED <<env, world, threads, holds>>

\* the handler returns: its caller has the result, the next call can start
Return ==
    /\ ~Idle
    /\ call.op \notin {"pending", "resolve"}
    /\ call' = CallNone
    /\ UNCHANGED <<env, world, session, disk, threads, holds>>

Next ==
    \/ Construct(MainBuckets, MainDirs, MainProjects)
    \/ Save
    \/ Read
    \/ Delete
    \/ Copy
    \/ List
    \/ GetInfo
    \/ Return

Spec == Init /\ [][Next]_vars

(* The constructor alone, over every environment of CtorEnvs               *)

InitCtor ==
    /\ env \in CtorEnvs
    /\ world = [bucketState |-> "ok", rc |-> 0, fault |-> "none"]
    /\ session = NoSession
    /\ call = CallNone
    /\ disk = {}
    /\ threads = NoThreads
    /\ holds = NoFiles

NextCtor == Construct(CtorBuckets, CtorDirs, CtorProjects) \/ Return

SpecCtor == InitCtor /\ [][NextCtor]_vars

(* The resolver alone: a constructed session and the arguments of one call *)

PathSessions ==
    {init(b, dr, None, e, TRUE) :
        b \in {None, <<"b">>}, dr \in {<<>>, <<Slash, "d", Slash>>},
        e \in {EnvNone, EnvCli}} \ {NoSession}

InitPath ==
    /\ env = EnvNone
    /\ world = [bucketState |-> "ok", rc |-> 0, fault |-> "none"]
    /\ session \in PathSessions
    /\ \E f \in PathFiles, b \in PathBuckets, dr \in PathDirs :
         call = [CallNone EXCEPT !.op = "pending", !.filename = f,
                                 !.bucket = b, !.directory = dr]
    /\ disk = {}
    /\ threads = NoThreads
    /\ holds = NoFiles

\* self._construct_gcs_path(filename, bucket_name, directory)
Resolve ==
    /\ call.op = "pending"
    /\ call' = [call EXCEPT
                  !.op = "resolve",
                  !.gcs_path = construct_gcs_path(session, call.filename,
                                                  call.bucket, call.directory)]
    /\ UNCHANGED <<env, world, session, disk, threads, holds>>

NextPath == Resolve

SpecPath == InitPath /\ [][NextPath]_vars

(* Two calls side by side on one session, each advancing one statement at  *)
(* a time: the saves and reads that stage a local file.                    *)

F_sub == <<"x", Slash>> \o F_bin

ConcFiles == {F_bin, F_sub, F_PNG}
ConcKinds == {"plot", "str"}
ConcWorlds == {w \in Worlds : w.bucketState = "ok" /\ w.fault = "none"}

\* the files with n holding the bytes c, and without n
Put(h, n, c) == [x \in (DOMAIN h) \cup {n} |-> IF x = n THEN c ELSE h[x]]
Drop(h, n) == [x \in (DOMAIN h) \ {n} |-> h[x]]

\* the bytes a save uploads: the payload of the thread's own call
Payload(t) == <<"<payload>", ToString(t)>>

InitConc ==
    /\ env = EnvNone
    /\ world \in ConcWorlds
    /\ session = init(<<"b">>, <<Slash, "d", Slash>>, None, EnvNone, TRUE)
    /\ call = CallNone
    /\ disk = {}
    /\ threads = NoThreads
    /\ holds = NoFiles

\* save_data_to_bucket / read_data_from_bucket up to the helper's first
\* statement: the address, the validation, the dispatch.  A plot under an
\* extension _save_plot does not know returns False here.
Begin(t) ==
    /\ threads[t].pc = "idle"
    /\ \E op \in {"save", "read"}, f \in ConcFiles, o \in Overrides,
          k \in ConcKinds \cup {"-"} :
         /\ op = "read" <=> k = "-"
         /\ file_ext_of(f) \notin TabularExts
         /\ LET g == construct_gcs_path(session, f, o.bucket, o.directory)
                c == [ThreadIdle EXCEPT
                        !.op = op, !.kind = k, !.filename = f, !.gcs_path = g,
                        !.own = IF op = "save" THEN Payload(t) ELSE g]
            IN  /\ validate_bucket_access(session, bucket_of(g), world)
                /\ threads' =
                     [threads EXCEPT ![t] =
                        IF k = "plot" /\ file_ext_of(f) \notin PlotExts
                        THEN [c EXCEPT !.pc = "done", !.result = "False",
                                       !.err = "unsupported"]
                        ELSE [c EXCEPT !.pc = "stage"]]
    /\ UNCHANGED <<env, world, session, call, disk, holds>>

\* a save creates its temporary file and fills it; a read has gcloud copy
\* the object to Path(filename).name in the working directory
Stage(t) ==
    LET c == threads[t]
        tmp == NamedTemporaryFile(disk, IF c.kind = "plot"
                                        THEN file_ext_of(c.filename) ELSE <<>>)
        local_filename == path_name(c.filename)
    IN  /\ c.pc = "stage"
        /\ IF c.op = "save"
           THEN /\ disk' = disk \cup {tmp}
                /\ holds' = Put(holds, tmp, c.own)
                /\ threads' = [threads EXCEPT ![t].pc = "transfer",
                                              ![t].local = tmp]
           ELSE IF world.rc = 0
           THEN /\ disk' = download(c.gcs_path, local_filename, world, disk)
                /\ holds' = Put(holds, local_filename, c.own)
                /\ threads' = [threads EXCEPT ![t].pc = "load",
                                              ![t].local = local_filename]
           ELSE /\ threads' = [threads EXCEPT ![t].pc = "done",
                                              ![t].result = "None"]
                /\ UNCHANGED <<disk, holds>>
        /\ UNCHANGED <<env, world, session, call>>

\* a save: gcloud storage cp tmp_file.name gcs_path
Transfer(t) ==
    LET c == threads[t]
    IN  /\ c.pc = "transfer"
        /\ threads' = [threads EXCEPT
                         ![t].pc = "unlink",
                         ![t].got = IF c.local \in disk THEN holds[c.local]
                                    ELSE None]
        /\ UNCHANGED <<env, world, session, call, disk, holds>>

\* a read: Image(local_filename) and display, or open(local_filename).read();
\* a file that is gone raises FileNotFoundError, which read_data_from_bucket
\* turns into None
Load(t) ==
    LET c == threads[t]
    IN  /\ c.pc = "load"
        /\ threads' =
             [threads EXCEPT ![t] =
                IF c.local \in disk
                THEN [c EXCEPT !.pc = "unlink", !.got = holds[c.local]]
                ELSE [c EXCEPT !.pc = "done", !.result = "None",
                               !.err = "FileNotFoundError"]]
        /\ UNCHANGED <<env, world, session, call, disk, holds>>

\* os.unlink of the staged file, then the return value
Unlink(t) ==
    LET c == threads[t]
    IN  /\ c.pc = "unlink"
        /\ IF c.local \in disk
           THEN /\ disk' = disk \ {c.local}
                /\ holds' = Drop(holds, c.local)
                /\ threads' =
                     [threads EXCEPT
                        ![t].pc = "done",
                        ![t].result =
                            IF c.op = "read"
                            THEN (IF file_ext_of(c.filename) \in ReadImageExts
                                  THEN "img" ELSE "content")
                            ELSE IF world.rc = 0 THEN "True" ELSE "False"]
           ELSE /\ threads' =
                     [threads EXCEPT
                        ![t].pc = "done",
                        ![t].result = IF c.op = "read" THEN "None" ELSE "False",
                        ![t].err = "FileNotFoundError"]
                /\ UNCHANGED <<disk, holds>>
        /\ UNCHANGED <<env, world, session, call>>

\* the call returns to its caller
Finish(t) ==
    /\ threads[t].pc = "done"
    /\ threads' = [threads EXCEPT ![t] = ThreadIdle]
    /\ UNCHANGED <<env, world, session, call, disk, holds>>

NextConc ==
    \E t \in Tids :
        \/ Begin(t)
        \/ Stage(t)
        \/ Transfer(t)
        \/ Load(t)
        \/ Unlink(t)
        \/ Finish(t)

SpecConc == InitConc /\ [][NextConc]_vars

---------------------------------------------------------------------------
(* What the claims are stated with                                         *)

Resolved == call.op = "resolve"

Prefixed(f) == StartsWith(f, Scheme)

\* s without its leading (trailing) slashes, one slash at a time
RECURSIVE DropLeading(_)
DropLeading(s) ==
    IF s # <<>> /\ Head(s) = Slash THEN DropLeading(Tail(s)) ELSE s

RECURSIVE DropTrailing(_)
DropTrailing(s) ==
    IF s # <<>> /\ s[Len(s)] = Slash
    THEN DropTrailing(SubSeq(s, 1, Len(s) - 1))
    ELSE s

Trimmed(s) == DropTrailing(DropLeading(s))

\* s without a leading 'gs://'
WithoutPrefix(s) ==
    IF Prefixed(s) THEN SubSeq(s, Len(Scheme) + 1, Len(s)) ELSE s

\* s without any 'gs://', reading s from position i on
RECURSIVE WithoutSchemeFrom(_, _)
WithoutSchemeFrom(s, i) ==
    IF i > Len(s) THEN <<>>
    ELSE IF i + 4 <= Len(s) /\ SubSeq(s, i, i + 4) = Scheme
         THEN WithoutSchemeFrom(s, i + 5)
         ELSE <<s[i]>> \o WithoutSchemeFrom(s, i + 1)

\* the bucket and the directory a call's address is composed from
EffectiveBucket ==
    IF call.bucket # None /\ call.bucket # <<>> THEN call.bucket
    ELSE session.bucket_name

EffectiveDir ==
    IF call.directory # None THEN call.directory ELSE session.directory

\* 'gs://B/D/F', or 'gs://B/F' when D is empty
Composed(b, dr, f) ==
    IF dr # <<>> THEN Scheme \o b \o <<Slash>> \o dr \o <<Slash>> \o f
    ELSE Scheme \o b \o <<Slash>> \o f

\* the positions of a call's trace holding one of the events
At(events) == {i \in 1..Len(call.trace) : call.trace[i].ev \in events}

\* the uploads and remote writes of a call, and where one went
WritesAt ==
    {i \in 1..Len(call.trace) :
        \/ call.trace[i].ev = "write"
        \/ call.trace[i].ev = "cp" /\ Prefixed(call.trace[i].b)}

DestinationOf(e) == IF e.ev = "write" THEN e.a ELSE e.b

\* the local files a call created
CreatedLocally ==
    {call.trace[i].a : i \in At({"mktemp"})}
    \cup {call.trace[i].b :
            i \in {j \in At({"cp"}) : ~Prefixed(call.trace[j].b) /\ world.rc = 0}}

\* 'yes' or 'y' in any mix of cases
Affirmative(r) ==
    \/ r \in {<<y>> : y \in {"y", "Y"}}
    \/ r \in {<<y, e, z>> : y \in {"y", "Y"}, e \in {"e", "E"}, z \in {"s", "S"}}

\* an extension of neither the tabular nor the plot class
Unrecognized(f) == file_ext_of(f) \notin (TabularExts \cup PlotExts)

---------------------------------------------------------------------------
(* C1 .. C10                                                               *)

\* C1: a filename that starts with 'gs://' is returned unchanged whatever the
\* bucket override, the directory override and the session defaults are, and
\* resolving the result again, under any overrides, gives the same string.
C1_PrefixedUnchanged ==
    (Resolved /\ Prefixed(call.filename)) =>
        /\ call.gcs_path = call.filename
        /\ \A b \in PathBuckets, dr \in PathDirs :
             construct_gcs_path(session, call.gcs_path, b, dr) = call.gcs_path

C1_Witness ==
    /\ Resolved
    /\ Prefixed(call.filename)
    /\ Len(call.filename) > Len(Scheme)
    /\ call.bucket \notin {None, <<>>}
    /\ call.directory \notin {None, <<>>}
    /\ call.gcs_path = call.filename

\* C2 as stated: for a filename that does not start with 'gs://' the result is
\* 'gs://B/D/F' ('gs://B/F' when D is empty), B the bucket override if given
\* else the session default, with the scheme prefix removed; D the directory
\* override if not None else the session default, F the filename, both
\* without leading and trailing slashes.
C2_AsStated ==
    (Resolved /\ ~Prefixed(call.filename)) =>
        call.gcs_path = Composed(WithoutPrefix(EffectiveBucket),
                                 Trimmed(EffectiveDir), Trimmed(call.filename))

\* C2 as amended: the same, with B the bucket override if it is given and not
\* empty, and with every occurrence of 'gs://' removed from B, not only a
\* leading one.
C2_Composition ==
    (Resolved /\ ~Prefixed(call.filename)) =>
        call.gcs_path = Composed(WithoutSchemeFrom(EffectiveBucket, 1),
                                 Trimmed(EffectiveDir), Trimmed(call.filename))

C2_Witness ==
    /\ Resolved
    /\ call.filename = <<Slash, "f">>
    /\ call.bucket = Scheme \o <<"o">>
    /\ call.directory = <<Slash, "x">>
    /\ call.gcs_path = Scheme \o <<"o", Slash, "x", Slash, "f">>

\* C3: with confirm=True, 'gcloud storage rm' is issued only after the prompt
\* was answered 'yes' or 'y' (in any case); after any other answer, the empty
\* one included, no rm is issued and the call returns False.
C3_DeleteNeedsConsent ==
    (call.op = "delete" /\ call.confirm) =>
        /\ At({"rm"}) # {} =>
             /\ Affirmative(call.response)
             /\ \E j \in At({"prompt"}) :
                  /\ \A i \in At({"rm"}) : j < i
                  /\ call.trace[j].b = call.response
        /\ ~Affirmative(call.response) =>
             /\ At({"rm"}) = {}
             /\ call.result = "False"

C3_Witness ==
    /\ call.op = "delete"
    /\ call.confirm
    /\ call.response = <<"n", "o">>
    /\ At({"prompt"}) # {}
    /\ At({"rm"}) = {}
    /\ call.result = "False"

\* C4 as stated: a save that reports success has written exactly one object,
\* at the address the resolver gives for the call's filename, bucket override
\* and directory override, whatever the payload kind.
C4_AsStated ==
    (call.op = "save" /\ call.result = "True") =>
        /\ Cardinality(WritesAt) = 1
        /\ \A i \in WritesAt : DestinationOf(call.trace[i]) = call.gcs_path

\* C4 as amended: a save that reports success has written exactly one object;
\* its address is the resolver's address for the call, except for a dict of
\* tables whose resolved address does not end in '.xlsx', which is written at
\* that address with '.xlsx' appended.
C4_OneWriteAtAddress ==
    (call.op = "save" /\ call.result = "True") =>
        /\ Cardinality(WritesAt) = 1
        /\ \A i \in WritesAt :
             DestinationOf(call.trace[i]) =
                 IF call.kind = "dict" /\ ~EndsWith(call.gcs_path, XlsxExt)
                 THEN call.gcs_path \o XlsxExt
                 ELSE call.gcs_path

C4_Witness ==
    /\ call.op = "save"
    /\ call.result = "True"
    /\ call.kind = "dict"
    /\ call.filename = F_csv
    /\ \E i \in WritesAt :
         DestinationOf(call.trace[i]) = call.gcs_path \o XlsxExt

\* C5: when a save or a read has ended, however it ended, no local file the
\* call created is left on disk, unless the caller asked for a local copy
\* (save_copy_locally or local_only).
C5_NoOrphanedFiles ==
    (call.op \in {"save", "read"}
     /\ ~call.save_copy_locally /\ ~call.local_only) =>
        CreatedLocally \cap disk = {}

\* C6: a save or a read whose copy command exited non-zero ends in a failure
\* outcome that the same call cannot give when the copy exits zero.
C6_CopyFailureSurfaces ==
    (call.op \in {"save", "read"} /\ At({"cp"}) # {} /\ world.rc # 0) =>
        /\ call.result \in {"False", "None"}
        /\ call.result #
             (IF call.op = "save"
              THEN save_data_to_bucket(session, call.kind, call.filename,
                                       call.bucket, call.directory, call.index,
                                       [world EXCEPT !.rc = 0], {}).result
              ELSE read_data_from_bucket(session, call.filename, call.bucket,
                                         call.directory, call.save_copy_locally,
                                         call.local_only,
                                         [world EXCEPT !.rc = 0], {}).result)

C8_BucketDetermined ==
    /\ (call.op = "init" /\ call.bucket = None
        /\ FirstEnv(env, BucketEnvVars) = None
        /\ CliValue(env.cli_bucket) = None) =>
            (call.result = "ValueError" /\ ~session.exists)
    /\ session.exists => session.bucket_name # <<>>

\* C9: a read with local_only set only transfers: it loads and displays
\* nothing, and after a successful transfer it returns the local path of the
\* downloaded file, for every class of extension.
C9_LocalOnlyTransfers ==
    (call.op = "read" /\ call.local_only) =>
        /\ At({"load", "display"}) = {}
        /\ (At({"cp"}) # {} /\ world.rc = 0) =>
             (call.result = "path" /\ call.value \in disk)

\* C10: an address composed from a filename that does not start with 'gs://'
\* is 'gs://' followed by segments separated by single slashes, none of them
\* empty.
C10_Normalized ==
    (Resolved /\ ~Prefixed(call.filename)) =>
        /\ Prefixed(call.gcs_path)
        /\ LET segs == py_split(WithoutPrefix(call.gcs_path), Slash)
           IN  \A i \in 1..Len(segs) : segs[i] # <<>>

---------------------------------------------------------------------------
(* C11 .. C15                                                              *)

\* a source of the bucket name that is present and not empty
Given(v) == v # None /\ v # <<>>

\* the bucket variables that are set and not empty while every variable
\* before them in the order is unset or empty
FirstGiven ==
    {i \in 1..Len(BucketEnvVars) :
        /\ Given(env.vars[BucketEnvVars[i]])
        /\ \A j \in 1..(i - 1) : ~Given(env.vars[BucketEnvVars[j]])}

\* what the CLI configuration lookup answered: its output without the
\* surrounding whitespace, empty when the command failed
CliAnswer ==
    IF env.cli_bucket = CliFail THEN <<>> ELSE py_strip(env.cli_bucket, Whitespace)

\* C11: the session's bucket comes from the bucket_name argument if that is
\* not empty; otherwise from the first set and non-empty variable in the order
\* WORKSPACE_BUCKET, GCS_BUCKET, GOOGLE_CLOUD_BUCKET, BUCKET_NAME; otherwise it
\* is the answer of the CLI configuration lookup; a source is used only when
\* every source before it is absent or empty.  (The argument and the
\* variables are taken with 'gs://' removed.)
C11_BucketPrecedence ==
    call.op = "init" =>
        IF Given(call.bucket)
        THEN /\ session.exists
             /\ session.bucket_name = WithoutSchemeFrom(call.bucket, 1)
        ELSE IF FirstGiven # {}
        THEN /\ session.exists
             /\ \A i \in FirstGiven :
                  session.bucket_name =
                      WithoutSchemeFrom(env.vars[BucketEnvVars[i]], 1)
        ELSE IF CliAnswer # <<>>
        THEN session.exists /\ session.bucket_name = CliAnswer
        ELSE ~session.exists

C11_Witness ==
    /\ call.op = "init"
    /\ call.bucket = <<>>
    /\ env.vars["WORKSPACE_BUCKET"] = None
    /\ env.vars["GCS_BUCKET"] = <<>>
    /\ env.vars["GOOGLE_CLOUD_BUCKET"] = <<"e", "3">>
    /\ env.vars["BUCKET_NAME"] = <<"e", "4">>
    /\ env.cli_bucket = <<"c", "\n">>
    /\ session.exists
    /\ session.bucket_name = <<"e", "3">>

\* C12: once the session is constructed, no save, read, copy, list, delete or
\* get-info call changes its bucket_name, directory or project_id, whatever
\* the overrides and however the call ends; an override counts for its own
\* call only: a call without overrides is resolved against the configuration
\* the session had before it.
C12_ConfigReadOnly ==
    [][session.exists =>
         /\ session'.bucket_name = session.bucket_name
         /\ session'.directory = session.directory
         /\ session'.project_id = session.project_id
         /\ (/\ call'.op \in {"save", "read", "delete"}
             /\ call'.bucket = None
             /\ call'.directory = None
             /\ ~Prefixed(call'.filename)) =>
                call'.gcs_path = Composed(session.bucket_name, session.directory,
                                          Trimmed(call'.filename))]_vars

\* a second call has failed under overrides, after a first one left its file
C12_Witness ==
    /\ call.op = "save"
    /\ call.bucket = <<"o">>
    /\ call.directory = <<Slash, "x", Slash>>
    /\ call.result = "False"
    /\ Cardinality(disk) = 2
    /\ session.bucket_name = <<"b">>
    /\ session.directory = <<"d">>

\* a thread between the staging of its local file and the file's removal
InFlight(t) == threads[t].pc \in {"transfer", "load", "unlink"}

\* C13: two save or read calls that run side by side never have the same
\* local file name in use, so no call loads or uploads bytes another call
\* staged, and no call finds its staged file removed by another, including
\* two reads of the same base filename under different buckets or
\* directories.
C13_DistinctStaging ==
    /\ \A t \in Tids, u \in Tids :
         (t # u /\ InFlight(t) /\ InFlight(u)) =>
             threads[t].local # threads[u].local
    /\ \A t \in Tids :
         /\ threads[t].got \in {None, threads[t].own}
         /\ threads[t].err # "FileNotFoundError"

\* C14: a save or a read goes on to a write, a codec call or a transfer only
\* after the bucket of its address was validated; when that bucket does not
\* exist or access to it is denied, the validation fails, the call issues no
\* write, codec call or copy and returns its failure value (False for a save,
\* None for a read).
C14_ValidatedBeforeTransfer ==
    call.op \in {"save", "read"} =>
        /\ \A i \in At({"write", "cp", "load", "mktemp", "render"}) :
             \E j \in At({"validate"}) : j < i
        /\ world.bucketState # "ok" =>
             /\ call.err = "access"
             /\ At({"write", "cp", "load", "mktemp", "render"}) = {}
             /\ call.result = IF call.op = "save" THEN "False" ELSE "None"

\* C15: when a dict of tables is saved, every sheet is written with the
\* caller's index argument, and the workbook goes to the address resolved
\* from the caller's bucket and directory overrides ('.xlsx' appended when it
\* is missing).
C15_WorkbookIndex ==
    (call.op = "save" /\ call.kind = "dict") =>
        /\ \A i \in At({"render"}) :
             call.trace[i].b = IF call.index THEN PyTrue ELSE PyFalse
        /\ \A i \in At({"cp"}) :
             call.trace[i].b \in {call.gcs_path, call.gcs_path \o XlsxExt}

====
